---- MODULE Spec2Model ----
(***************************************************************************)
(* State-machine model of the Chatterbox TTS request orchestration layer:  *)
(*   - chatterbox/api_server.py : AUDIO_CACHE, get_cached_audio,           *)
(*     cache_audio, generate_audio_bytes, set_character_voice              *)
(*   - chatterbox/aws_tts_api.py : generate_tts (/api/v1/tts) and          *)
(*     ACTIVE_REQUESTS                                                     *)
(*   - chatterbox/streaming_tts.py : split_text_into_chunks and the        *)
(*     generator generate_streaming_tts                                    *)
(*   - chatterbox/api_server.py : the admin handlers (upload-voice,        *)
(*     create-character, delete-voice, delete-character, reload-config)    *)
(*     and the configuration file they save and load                       *)
(*   - chatterbox/tts_client.py : ChatterboxTTSClient.generate_audio and   *)
(*     its retry loop                                                      *)
(*                                                                         *)
(* Flask runs with threaded=True: every request is handled by a thread of  *)
(* its own, and the threads interleave between Python statements.  Each    *)
(* request of the model is one such thread; its pc names the statement it  *)
(* executes next.                                                          *)
(*                                                                         *)
(* hashlib.md5 (get_cache_key) is idealised as injective: the cache key is *)
(* represented by the string that is hashed.                               *)
(***************************************************************************)
EXTENDS Integers, Sequences, FiniteSets, TLC

VARIABLES
    CACHE_ENABLED,     \* api_server.CACHE_ENABLED (AUDIO_CACHE is None iff FALSE)
    AUDIO_CACHE,       \* api_server.AUDIO_CACHE: insertion-ordered dict, as a sequence of [key, val]
    VOICE_LIBRARY,     \* api_server.VOICE_LIBRARY: the registered voice ids
    CHARACTER_VOICES,  \* api_server.CHARACTER_VOICES: character id -> [voice_id, language]
    req,               \* api_server request threads: request -> frame of generate_audio_bytes
    genCalls,          \* number of model.generate calls started so far (history)
    prev,              \* last request that returned with nothing happening since (history)
    snap,              \* AUDIO_CACHE when get_cached_audio / cache_audio was last entered (history)
    ACTIVE_REQUESTS,   \* aws_tts_api.ACTIVE_REQUESTS
    aws,               \* aws_tts_api request threads: request -> frame of generate_tts
    stream,            \* one generate_streaming_tts generator and its consumer
    split,             \* one call of split_text_into_chunks: its arguments and its return value
    awsCall,           \* one aws_tts_api request handled on its own: its handler's frame
    client,            \* one call of ChatterboxTTSClient.generate_audio: its frame
    admin,             \* api_server admin handlers run as threads: handler -> frame
    config_file        \* character_voices.json, the file the admin handlers save to

vars == <<CACHE_ENABLED, AUDIO_CACHE, VOICE_LIBRARY, CHARACTER_VOICES, req, genCalls,
          prev, snap, ACTIVE_REQUESTS, aws, stream, split, awsCall, client, admin,
          config_file>>

apiVars == <<CACHE_ENABLED, AUDIO_CACHE, VOICE_LIBRARY, CHARACTER_VOICES, req, genCalls,
             prev, snap>>
awsVars == <<ACTIVE_REQUESTS, aws>>
cliVars == <<client, admin, config_file>>
extVars == <<split, awsCall, cliVars>>

-----------------------------------------------------------------------------
(* Bounds of the model *)

MaxRequests == 2        \* api_server request threads
MaxAwsRequests == 5     \* aws_tts_api request threads
MaxTextLen == 7         \* length of the texts streamed
MaxGenCalls == 2        \* model.generate calls of the api_server handlers
MaxBatch == 2           \* items of a batch

(* Program constants *)

MAX_CACHE_SIZE == 100
MAX_CONCURRENT_REQUESTS == 4
ModelTextLimit == 300   \* text[:300] in the model.generate call
FunctionDefaultMaxTokens == 400   \* generate_audio_bytes(..., max_tokens: int = 400, ...)

Requests == 1..MaxRequests
AwsRequests == 1..MaxAwsRequests

\* Python's None; `if voice_id` treats None and "" alike, so "" stands for both.
None == ""

-----------------------------------------------------------------------------
(* Inputs *)

Texts == {"hello", "hello_narrator"}
CharacterInputs == {"narrator", "expert", "ghost"}
VoiceInputs == {None, "expert", "nope"}

InitialVoices == {"narrator", "friendly", "expert", "child", "mysterious", "calm"}

InitialCharacters ==
    [c \in {"narrator", "assistant", "expert", "luna", "sage", "elara"} |->
        [voice_id |-> CASE c = "narrator" -> "narrator"
                        [] c = "assistant" -> "friendly"
                        [] c = "expert" -> "expert"
                        [] c = "luna" -> "mysterious"
                        [] c = "sage" -> "calm"
                        [] c = "elara" -> "friendly",
         language |-> "en"]]

-----------------------------------------------------------------------------
(* The cache: api_server.py get_cache_key, get_cached_audio, cache_audio *)

\* get_cache_key(text, character_id): the string fed to md5.
get_cache_key(text, character_id) == text \o "_" \o character_id

\* cache_key_override of generate_audio_bytes.
cache_key_override(text, character_id, voice_id) ==
    IF voice_id # None THEN text \o "_" \o character_id \o "_" \o voice_id
                       ELSE text \o "_" \o character_id

CacheKeys(cache) == {cache[i].key : i \in 1..Len(cache)}

CacheIndex(cache, k) == CHOOSE i \in 1..Len(cache) : cache[i].key = k

\* AUDIO_CACHE[cache_key]
CacheGet(cache, k) == cache[CacheIndex(cache, k)].val

\* del AUDIO_CACHE[k]
CacheDel(cache, k) ==
    LET i == CacheIndex(cache, k)
    IN  SubSeq(cache, 1, i - 1) \o SubSeq(cache, i + 1, Len(cache))

\* A cache that evicts its newest entry.
NewestKey(cache) == cache[Len(cache)].key

\* next(iter(AUDIO_CACHE)): the first key in insertion order.
OldestKey(cache) == cache[1].key

\* A store that is lost.
CachePutLost(cache, k, v) == cache

\* AUDIO_CACHE[k] = v: a dict keeps the position of a key it already holds.
CachePut(cache, k, v) ==
    IF k \in CacheKeys(cache)
    THEN [cache EXCEPT ![CacheIndex(cache, k)] = [key |-> k, val |-> v]]
    ELSE Append(cache, [key |-> k, val |-> v])

\* model.generate(text=text[:300], ...)
ModelText(text) ==
    IF Len(text) > ModelTextLimit THEN SubSeq(text, 1, ModelTextLimit) ELSE text

\* The (audio_bytes, sample_rate, duration) of one model.generate call.  Sampling
\* (temperature) makes two calls differ: `call` is the serial number of the call.
\* `args` records the request the audio was synthesized for (history).
Audio(text, character_id, actual_voice_id, call, args) ==
    [text |-> ModelText(text), character |-> character_id, voice |-> actual_voice_id,
     call |-> call, args |-> args]

NoAudio == [text |-> "", character |-> "", voice |-> "", call |-> 0, args |-> <<>>]

\* Entries of earlier requests ("warm<i>", narrator) that fill the cache at start.
WarmEntry(i) ==
    LET t == "warm" \o ToString(i)
    IN  [key |-> get_cache_key(cache_key_override(t, "narrator", None), ""),
         val |-> Audio(t, "narrator", "narrator", 0, <<t, "narrator", None>>)]

WarmCache(n) == [i \in 1..n |-> WarmEntry(i)]

WarmSizes == {0, MAX_CACHE_SIZE - 1, MAX_CACHE_SIZE}

-----------------------------------------------------------------------------
(* api_server.generate_audio_bytes, one thread per request *)

IdleFrame ==
    [pc |-> "idle", text |-> "", character_id |-> "", voice_id |-> None, use_cache |-> TRUE,
     key |-> "", actual_voice_id |-> "", bound_voice |-> "", call |-> 0, oldest_key |-> "",
     result |-> NoAudio, error |-> "", hit |-> FALSE, gen |-> 0, pred |-> 0,
     max_tokens |-> 0, max_new_tokens |-> 0, language |-> None, language_id |-> "",
     endpoint |-> "", rejected |-> FALSE, actual_voice |-> "",
     char_known |-> FALSE, voice_known |-> FALSE, outcome |-> ""]

Finished(r) == req[r].pc \in {"done", "failed"}
Active(r) == req[r].pc \notin {"idle", "done", "failed"}

\* A thread enters generate_audio_bytes and computes cache_key_override.
\* Requests are numbered in the order of their arrival.
\* bound_voice, pred: history (the character's voice at the call, the call that
\* returned just before this one).
Call(r, text, character_id, voice_id, use_cache) ==
    /\ req[r].pc = "idle"
    /\ \A q \in Requests : q < r => req[q].pc # "idle"
    /\ req' = [req EXCEPT ![r] =
            [@ EXCEPT !.pc = IF use_cache THEN "lookup" ELSE "resolve",
                      !.text = text, !.character_id = character_id,
                      !.voice_id = voice_id, !.use_cache = use_cache,
                      !.key = get_cache_key(cache_key_override(text, character_id, voice_id), ""),
                      !.bound_voice = IF character_id \in DOMAIN CHARACTER_VOICES
                                      THEN CHARACTER_VOICES[character_id].voice_id ELSE "",
                      !.max_tokens = FunctionDefaultMaxTokens,
                      !.pred = prev]]
    /\ prev' = 0
    /\ UNCHANGED <<CACHE_ENABLED, AUDIO_CACHE, VOICE_LIBRARY, CHARACTER_VOICES, genCalls>>
    /\ UNCHANGED <<snap, awsVars, stream, extVars>>

\* get_cached_audio: `if AUDIO_CACHE is None` and `if cache_key in AUDIO_CACHE`.
Lookup(r) ==
    /\ req[r].pc = "lookup"
    /\ req' = [req EXCEPT ![r].pc =
            IF CACHE_ENABLED /\ req[r].key \in CacheKeys(AUDIO_CACHE) THEN "hit" ELSE "resolve"]
    /\ UNCHANGED <<CACHE_ENABLED, AUDIO_CACHE, VOICE_LIBRARY, CHARACTER_VOICES, genCalls, prev>>
    /\ snap' = AUDIO_CACHE
    /\ UNCHANGED <<awsVars, stream, extVars>>

\* get_cached_audio: `return AUDIO_CACHE[cache_key]`, then `if cached: return cached`
\* (a 3-tuple is always true).  The entry may have been evicted since the test:
\* KeyError, re-raised by generate_audio_bytes.
Hit(r) ==
    /\ req[r].pc = "hit"
    /\ IF req[r].key \in CacheKeys(AUDIO_CACHE)
       THEN /\ req' = [req EXCEPT ![r].pc = "done", ![r].hit = TRUE,
                                  ![r].result = CacheGet(AUDIO_CACHE, req[r].key)]
            /\ prev' = r
       ELSE /\ req' = [req EXCEPT ![r].pc = "failed", ![r].error = "KeyError"]
            /\ prev' = 0
    /\ UNCHANGED <<CACHE_ENABLED, AUDIO_CACHE, VOICE_LIBRARY, CHARACTER_VOICES, genCalls>>
    /\ UNCHANGED <<snap, awsVars, stream, extVars>>

\* A resolution that ignores the voice override.
ActualVoiceIgnoresOverride(characters, character_id, voice_id) ==
    characters[character_id].voice_id

\* actual_voice_id = voice_id if voice_id else character.get("voice_id", "narrator")
ActualVoice(characters, character_id, voice_id) ==
    IF voice_id # None THEN voice_id ELSE characters[character_id].voice_id

\* Lines 313-341: the character and voice checks, then model.generate is entered.
Resolve(r) ==
    /\ req[r].pc = "resolve"
    /\ IF req[r].character_id \notin DOMAIN CHARACTER_VOICES
       THEN /\ req' = [req EXCEPT ![r].pc = "failed", ![r].error = "Unknown character"]
            /\ UNCHANGED genCalls
       ELSE LET v == ActualVoice(CHARACTER_VOICES, req[r].character_id, req[r].voice_id)
            IN  IF v \notin VOICE_LIBRARY
                THEN /\ req' = [req EXCEPT ![r].pc = "failed", ![r].error = "Unknown voice"]
                     /\ UNCHANGED genCalls
                ELSE /\ req' = [req EXCEPT ![r].pc = "generate", ![r].actual_voice_id = v,
                                           ![r].call = genCalls + 1, ![r].gen = @ + 1,
                                           ![r].max_new_tokens = req[r].max_tokens,
                                           ![r].language_id =
                                                CHARACTER_VOICES[req[r].character_id].language]
                     /\ genCalls' = genCalls + 1
    /\ prev' = 0
    /\ UNCHANGED <<CACHE_ENABLED, AUDIO_CACHE, VOICE_LIBRARY, CHARACTER_VOICES>>
    /\ UNCHANGED <<snap, awsVars, stream, extVars>>

ModelOutcomes == {"wav", "error", "empty"}

\* A post-processing that encodes whatever the model returned, a zero-length wav
\* included.
ModelReturnAcceptsEmpty(f, outcome) ==
    IF outcome = "error"
    THEN [f EXCEPT !.pc = "failed", !.error = "ModelFailure", !.outcome = outcome]
    ELSE [f EXCEPT !.pc = IF f.use_cache THEN "store" ELSE "done", !.outcome = outcome,
                   !.result = Audio(f.text, f.character_id, f.actual_voice_id, f.call,
                                    <<f.text, f.character_id, f.voice_id>>)]

\* The frame after model.generate returned and the post-processing of lines
\* 343-372 ran.  An exception of the model propagates; a zero-length wav makes
\* np.abs(wav_np).max() raise ValueError.  outcome: history.
ModelReturn(f, outcome) ==
    CASE outcome = "wav" ->
            [f EXCEPT !.pc = IF f.use_cache THEN "store" ELSE "done", !.outcome = outcome,
                      !.result = Audio(f.text, f.character_id, f.actual_voice_id, f.call,
                                       <<f.text, f.character_id, f.voice_id>>)]
      [] outcome = "error" ->
            [f EXCEPT !.pc = "failed", !.error = "ModelFailure", !.outcome = outcome]
      [] outcome = "empty" ->
            [f EXCEPT !.pc = "failed", !.error = "ValueError", !.outcome = outcome]

\* A generate_audio_bytes that stores a placeholder for the key when the model
\* fails.
GenerateCachesFailure(r, outcome) ==
    /\ req[r].pc = "generate"
    /\ req' = [req EXCEPT ![r] = ModelReturn(req[r], outcome)]
    /\ AUDIO_CACHE' = IF outcome # "wav" /\ req[r].use_cache /\ CACHE_ENABLED
                      THEN CachePut(AUDIO_CACHE, req[r].key, NoAudio) ELSE AUDIO_CACHE
    /\ prev' = IF outcome = "wav" /\ ~req[r].use_cache THEN r ELSE 0
    /\ UNCHANGED <<CACHE_ENABLED, VOICE_LIBRARY, CHARACTER_VOICES, genCalls>>
    /\ UNCHANGED <<snap, awsVars, stream, extVars>>

\* model.generate returns and the post-processing runs.
Generate(r, outcome) ==
    /\ req[r].pc = "generate"
    /\ req' = [req EXCEPT ![r] = ModelReturn(req[r], outcome)]
    /\ prev' = IF outcome = "wav" /\ ~req[r].use_cache THEN r ELSE 0
    /\ UNCHANGED <<CACHE_ENABLED, AUDIO_CACHE, VOICE_LIBRARY, CHARACTER_VOICES, genCalls>>
    /\ UNCHANGED <<snap, awsVars, stream, extVars>>

\* A cache_audio that stores also when the cache is disabled.
StoreIgnoresDisabled(r) ==
    /\ req[r].pc = "store"
    /\ req' = [req EXCEPT ![r].pc =
            IF Len(AUDIO_CACHE) >= MAX_CACHE_SIZE THEN "evict_read" ELSE "put"]
    /\ prev' = 0
    /\ UNCHANGED <<CACHE_ENABLED, AUDIO_CACHE, VOICE_LIBRARY, CHARACTER_VOICES, genCalls>>
    /\ snap' = AUDIO_CACHE
    /\ UNCHANGED <<awsVars, stream, extVars>>

\* cache_audio: `if AUDIO_CACHE is None: return`, `if len(AUDIO_CACHE) >= MAX_CACHE_SIZE`.
Store(r) ==
    /\ req[r].pc = "store"
    /\ IF ~CACHE_ENABLED
       THEN /\ req' = [req EXCEPT ![r].pc = "done"]
            /\ prev' = r
       ELSE /\ req' = [req EXCEPT ![r].pc =
                    IF Len(AUDIO_CACHE) >= MAX_CACHE_SIZE THEN "evict_read" ELSE "put"]
            /\ prev' = 0
    /\ UNCHANGED <<CACHE_ENABLED, AUDIO_CACHE, VOICE_LIBRARY, CHARACTER_VOICES, genCalls>>
    /\ snap' = AUDIO_CACHE
    /\ UNCHANGED <<awsVars, stream, extVars>>

\* cache_audio: `oldest_key = next(iter(AUDIO_CACHE))` (StopIteration on an empty dict).
EvictRead(r) ==
    /\ req[r].pc = "evict_read"
    /\ req' = [req EXCEPT ![r] =
            IF Len(AUDIO_CACHE) = 0
            THEN [@ EXCEPT !.pc = "failed", !.error = "StopIteration"]
            ELSE [@ EXCEPT !.pc = "evict_del", !.oldest_key = OldestKey(AUDIO_CACHE)]]
    /\ prev' = 0
    /\ UNCHANGED <<CACHE_ENABLED, AUDIO_CACHE, VOICE_LIBRARY, CHARACTER_VOICES, genCalls>>
    /\ UNCHANGED <<snap, awsVars, stream, extVars>>

\* cache_audio: `del AUDIO_CACHE[oldest_key]` (KeyError when another thread deleted it).
EvictDel(r) ==
    /\ req[r].pc = "evict_del"
    /\ IF req[r].oldest_key \in CacheKeys(AUDIO_CACHE)
       THEN /\ AUDIO_CACHE' = CacheDel(AUDIO_CACHE, req[r].oldest_key)
            /\ req' = [req EXCEPT ![r].pc = "put"]
       ELSE /\ req' = [req EXCEPT ![r].pc = "failed", ![r].error = "KeyError"]
            /\ UNCHANGED AUDIO_CACHE
    /\ prev' = 0
    /\ UNCHANGED <<CACHE_ENABLED, VOICE_LIBRARY, CHARACTER_VOICES, genCalls>>
    /\ UNCHANGED <<snap, awsVars, stream, extVars>>

\* cache_audio: `AUDIO_CACHE[cache_key] = (audio_bytes, sample_rate, duration)`, and
\* generate_audio_bytes returns.
Put(r) ==
    /\ req[r].pc = "put"
    /\ AUDIO_CACHE' = CachePut(AUDIO_CACHE, req[r].key, req[r].result)
    /\ req' = [req EXCEPT ![r].pc = "done"]
    /\ prev' = r
    /\ UNCHANGED <<CACHE_ENABLED, VOICE_LIBRARY, CHARACTER_VOICES, genCalls>>
    /\ UNCHANGED <<snap, awsVars, stream, extVars>>

\* One statement of the thread of request r.
Step(r) ==
    \/ Lookup(r)
    \/ Hit(r)
    \/ Resolve(r)
    \/ \E outcome \in ModelOutcomes : Generate(r, outcome)
    \/ Store(r)
    \/ EvictRead(r)
    \/ EvictDel(r)
    \/ Put(r)

-----------------------------------------------------------------------------
(* api_server.set_character_voice (POST /characters/<character_id>/voice) *)

\* 404 for an unknown character, 400 for an unknown voice; else the assignment of
\* line 1109.
set_character_voice(character_id, voice_id) ==
    /\ CHARACTER_VOICES' =
            IF character_id \in DOMAIN CHARACTER_VOICES /\ voice_id \in VOICE_LIBRARY
            THEN [CHARACTER_VOICES EXCEPT ![character_id].voice_id = voice_id]
            ELSE CHARACTER_VOICES
    /\ prev' = 0
    /\ UNCHANGED <<CACHE_ENABLED, AUDIO_CACHE, VOICE_LIBRARY, req, genCalls>>
    /\ UNCHANGED <<snap, awsVars, stream, extVars>>

-----------------------------------------------------------------------------
(* aws_tts_api.generate_tts (POST /api/v1/tts), one thread per request.        *)
(* aws_tts_api is a server of its own, with its own CHARACTER_VOICES and no      *)
(* cache.  EXECUTOR and REQUEST_QUEUE are created and never used: no statement  *)
(* submits to the pool or appends to the queue.                                 *)

AwsCharacters == {"narrator", "assistant", "expert", "friendly"}

IsSpace(c) == c \in {" ", "\t", "\n"}

RECURSIVE LStrip(_)
LStrip(s) ==
    IF Len(s) > 0 /\ IsSpace(SubSeq(s, 1, 1)) THEN LStrip(SubSeq(s, 2, Len(s))) ELSE s

RECURSIVE RStrip(_)
RStrip(s) ==
    IF Len(s) > 0 /\ IsSpace(SubSeq(s, Len(s), Len(s)))
    THEN RStrip(SubSeq(s, 1, Len(s) - 1)) ELSE s

\* str.strip()
Strip(s) == RStrip(LStrip(s))

RECURSIVE Repeat(_, _)
Repeat(s, n) ==
    IF n = 0 THEN ""
    ELSE IF n % 2 = 0 THEN LET h == Repeat(s, n \div 2) IN h \o h
    ELSE s \o Repeat(s, n - 1)

AwsMaxTextLength == 500

AwsTexts == {"", "  ", " hello ", Repeat("a", AwsMaxTextLength + 1)}
AwsCharacterInputs == {"narrator", "ghost"}

\* `ACTIVE_REQUESTS += 1` loads the global, adds and stores: two steps.
AwsIncRead(a) ==
    /\ aws[a].pc = "idle"
    /\ \A b \in AwsRequests : b < a => aws[b].pc # "idle"
    /\ aws' = [aws EXCEPT ![a].pc = "inc", ![a].tmp = ACTIVE_REQUESTS]
    /\ UNCHANGED <<ACTIVE_REQUESTS, apiVars, stream, extVars>>

AwsIncWrite(a) ==
    /\ aws[a].pc = "inc"
    /\ ACTIVE_REQUESTS' = aws[a].tmp + 1
    /\ aws' = [aws EXCEPT ![a].pc = "validate", ![a].tmp = 0]
    /\ UNCHANGED <<apiVars, stream, extVars>>

\* Lines 343-370 and generate_audio_bytes up to the model.generate call: the text
\* checks (400), the character check (ValueError, 400), then model.generate is
\* entered.  Nothing waits for a free slot.  Every return passes the finally clause.
AwsValidate(a, text, character_id) ==
    /\ aws[a].pc = "validate"
    /\ LET t == Strip(text)
       IN  aws' = [aws EXCEPT ![a] =
                IF t = "" \/ Len(t) > AwsMaxTextLength \/ character_id \notin AwsCharacters
                THEN [@ EXCEPT !.pc = "finally"]
                ELSE [@ EXCEPT !.pc = "generate"]]
    /\ UNCHANGED <<ACTIVE_REQUESTS, apiVars, stream, extVars>>

\* model.generate returns (the response, 200), raises (500), or returns a
\* zero-length wav on which np.abs(wav_np).max() raises ValueError (400): every
\* path leaves through the finally clause.
AwsGenerate(a, outcome) ==
    /\ aws[a].pc = "generate"
    /\ aws' = [aws EXCEPT ![a].pc = "finally"]
    /\ UNCHANGED <<ACTIVE_REQUESTS, apiVars, stream, extVars>>

\* finally: `ACTIVE_REQUESTS -= 1`, again a load and a store.
AwsDecRead(a) ==
    /\ aws[a].pc = "finally"
    /\ aws' = [aws EXCEPT ![a].pc = "dec", ![a].tmp = ACTIVE_REQUESTS]
    /\ UNCHANGED <<ACTIVE_REQUESTS, apiVars, stream, extVars>>

AwsDecWrite(a) ==
    /\ aws[a].pc = "dec"
    /\ ACTIVE_REQUESTS' = aws[a].tmp - 1
    /\ aws' = [aws EXCEPT ![a].pc = "done", ![a].tmp = 0]
    /\ UNCHANGED <<apiVars, stream, extVars>>

-----------------------------------------------------------------------------
(* api_server HTTP handlers: /generate-audio, /tts, /tts-json, /tts-stream, and  *)
(* the admin handlers that change CHARACTER_VOICES and VOICE_LIBRARY.  A handler *)
(* validates its request and calls generate_audio_bytes; the frame of the call   *)
(* keeps what the handler passed and what it will report.                        *)

MAX_TEXT_LENGTH == 500      \* also the literal of /tts
DEFAULT_MAX_TOKENS == 400
MinTokens == 100
MaxTokens == 1000

\* max(100, min(max_tokens, 1000))
ClampTokens(max_tokens) ==
    LET m == IF max_tokens < MaxTokens THEN max_tokens ELSE MaxTokens
    IN  IF m > MinTokens THEN m ELSE MinTokens

HttpEndpoints == {"/generate-audio", "/tts", "/tts-json", "/tts-stream"}
HttpTexts ==
    {"", "  ", " hello ", Repeat("a", ModelTextLimit + 1), Repeat("a", MAX_TEXT_LENGTH + 1)}
HttpCharacters == {"narrator", "ghost"}
HttpVoices == {None, "child", "nope"}
HttpMaxTokens == {50, DEFAULT_MAX_TOKENS, 5000}
HttpLanguages == {None, "fr"}

\* A /generate-audio that leaves the character check to generate_audio_bytes.
HandlerRejectionNoCharacterCheck(endpoint, text, character_id, voice_id) ==
    IF text = "" THEN "Text cannot be empty"
    ELSE IF Len(text) > MAX_TEXT_LENGTH /\ endpoint # "/tts-json" THEN "Text too long"
    ELSE IF /\ endpoint = "/generate-audio"
            /\ voice_id # None /\ voice_id \notin VOICE_LIBRARY THEN "Unknown voice"
    ELSE ""

\* What the handler of `endpoint` answers before it calls generate_audio_bytes
\* ("" when it calls it).  /tts-stream is `return generate_tts()`.  A body without
\* "text" is answered 400 as an empty text is.
HandlerRejection(endpoint, text, character_id, voice_id) ==
    CASE endpoint = "/generate-audio" ->
            IF text = "" THEN "Text cannot be empty"
            ELSE IF Len(text) > MAX_TEXT_LENGTH THEN "Text too long"
            ELSE IF character_id \notin DOMAIN CHARACTER_VOICES THEN "Unknown character"
            ELSE IF voice_id # None /\ voice_id \notin VOICE_LIBRARY THEN "Unknown voice"
            ELSE ""
      [] endpoint \in {"/tts", "/tts-stream"} ->
            IF text = "" THEN "Text cannot be empty"
            ELSE IF Len(text) > MAX_TEXT_LENGTH THEN "Text too long"
            ELSE ""
      [] endpoint = "/tts-json" ->
            IF text = "" THEN "Text cannot be empty" ELSE ""

\* A request arrives at `endpoint`: the handler up to its call of
\* generate_audio_bytes.  Only /generate-audio reads "voice_id" (and none reads
\* "language"); the other handlers call generate_audio_bytes without voice_id.
\* char_known, voice_known: history (was the character, and the effective voice,
\* registered when the request arrived).
HttpEnter(r, endpoint, text, character_id, voice_id, max_tokens, language) ==
    /\ req[r].pc = "idle"
    /\ \A q \in Requests : q < r => req[q].pc # "idle"
    /\ LET t == Strip(text)
           v == IF endpoint = "/generate-audio" THEN voice_id ELSE None
           known == character_id \in DOMAIN CHARACTER_VOICES
           bound == IF known THEN CHARACTER_VOICES[character_id].voice_id ELSE ""
           effective == IF v # None THEN v ELSE bound
           rejection == HandlerRejection(endpoint, t, character_id, v)
           f == [IdleFrame EXCEPT !.endpoint = endpoint, !.text = t,
                                  !.character_id = character_id, !.voice_id = v,
                                  !.language = language, !.bound_voice = bound,
                                  !.char_known = known,
                                  !.voice_known = known /\ effective \in VOICE_LIBRARY,
                                  !.pred = prev]
       IN  req' = [req EXCEPT ![r] =
                IF rejection # ""
                THEN [f EXCEPT !.pc = "failed", !.rejected = TRUE, !.error = rejection]
                ELSE [f EXCEPT !.pc = "lookup",
                               !.key = get_cache_key(cache_key_override(t, character_id, v), ""),
                               !.max_tokens = ClampTokens(max_tokens),
                               !.actual_voice = IF endpoint = "/generate-audio"
                                                THEN effective ELSE ""]]
    /\ prev' = 0
    /\ snap' = AUDIO_CACHE
    /\ UNCHANGED <<CACHE_ENABLED, AUDIO_CACHE, VOICE_LIBRARY, CHARACTER_VOICES, genCalls>>
    /\ UNCHANGED <<awsVars, stream>>

\* A request sent to `endpoint` by a caller outside the model.
HttpCall(r, endpoint, text, character_id, voice_id, max_tokens, language) ==
    /\ HttpEnter(r, endpoint, text, character_id, voice_id, max_tokens, language)
    /\ UNCHANGED extVars

ValueErrors == {"Unknown character", "Unknown voice", "ValueError"}

\* The status code of the response to the request of frame f.  /generate-audio
\* and /tts-json answer every exception with 500; /tts answers ValueError with 400.
HttpStatus(f) ==
    IF f.pc = "done" THEN 200
    ELSE IF f.rejected THEN 400
    ELSE IF f.endpoint \in {"/tts", "/tts-stream"} /\ f.error \in ValueErrors THEN 400
    ELSE 500

\* "voice_id": actual_voice of the /generate-audio response.
ResponseVoice(f) == f.actual_voice

\* The response is sent and the thread serves the next request.
HttpRespond(r) ==
    /\ Finished(r)
    /\ req' = [req EXCEPT ![r] = IdleFrame]
    /\ prev' = 0
    /\ UNCHANGED <<CACHE_ENABLED, AUDIO_CACHE, VOICE_LIBRARY, CHARACTER_VOICES, genCalls>>
    /\ UNCHANGED <<snap, awsVars, stream, extVars>>

\* The configuration file: absent, or the "voices" and "characters" last saved.
NoFile == [exists |-> FALSE, voices |-> {}, characters |-> [c \in {} |-> 0]]

\* load_config_file(): the file, or (no file found) the default configuration,
\* a copy of VOICE_LIBRARY and CHARACTER_VOICES as they are.
load_config_file(file, voices, characters) ==
    IF file.exists THEN file
    ELSE [exists |-> FALSE, voices |-> voices, characters |-> characters]

\* save_config_file(config, config_path)
save_config_file(config) == [config EXCEPT !.exists = TRUE]

\* d[k] = v of a dict
DictSet(d, k, v) == [c \in DOMAIN d \cup {k} |-> IF c = k THEN v ELSE d[c]]

\* del d[k] of a dict
DictDel(d, k) == [c \in DOMAIN d \ {k} |-> d[c]]

\* d.update(e) of a dict
DictUpdate(d, e) == [c \in DOMAIN d \cup DOMAIN e |-> IF c \in DOMAIN e THEN e[c] ELSE d[c]]

\* POST /admin/upload-voice: 400 for a voice id that exists; else
\* VOICE_LIBRARY[voice_id] = voice_config, and the voice is saved to the file.
admin_upload_voice(voice_id) ==
    /\ IF voice_id \in VOICE_LIBRARY
       THEN UNCHANGED <<VOICE_LIBRARY, config_file>>
       ELSE /\ VOICE_LIBRARY' = VOICE_LIBRARY \cup {voice_id}
            /\ LET config == load_config_file(config_file, VOICE_LIBRARY', CHARACTER_VOICES)
               IN  config_file' =
                        save_config_file([config EXCEPT !.voices = @ \cup {voice_id}])
    /\ prev' = 0
    /\ UNCHANGED <<CACHE_ENABLED, AUDIO_CACHE, CHARACTER_VOICES, req, genCalls>>
    /\ UNCHANGED <<snap, awsVars, stream, split, awsCall, client, admin>>

\* POST /admin/create-character: 400 for an id that exists or a voice that does
\* not; else CHARACTER_VOICES[character_id] = character_config, and the character
\* is saved to the file.
admin_create_character(character_id, voice_id, language) ==
    /\ IF character_id \notin DOMAIN CHARACTER_VOICES /\ voice_id \in VOICE_LIBRARY
       THEN LET character_config == [voice_id |-> voice_id, language |-> language]
            IN  /\ CHARACTER_VOICES' = DictSet(CHARACTER_VOICES, character_id, character_config)
                /\ LET config == load_config_file(config_file, VOICE_LIBRARY, CHARACTER_VOICES')
                   IN  config_file' = save_config_file(
                            [config EXCEPT !.characters = DictSet(@, character_id, character_config)])
       ELSE UNCHANGED <<CHARACTER_VOICES, config_file>>
    /\ prev' = 0
    /\ UNCHANGED <<CACHE_ENABLED, AUDIO_CACHE, VOICE_LIBRARY, req, genCalls>>
    /\ UNCHANGED <<snap, awsVars, stream, split, awsCall, client, admin>>

\* DELETE /admin/delete-character/<character_id>: 404 for an unknown id; else
\* del CHARACTER_VOICES[character_id], and the character is removed from the file
\* when the file holds it.
admin_delete_character(character_id) ==
    /\ IF character_id \in DOMAIN CHARACTER_VOICES
       THEN /\ CHARACTER_VOICES' = DictDel(CHARACTER_VOICES, character_id)
            /\ LET config == load_config_file(config_file, VOICE_LIBRARY, CHARACTER_VOICES')
               IN  config_file' =
                        IF character_id \in DOMAIN config.characters
                        THEN save_config_file(
                                [config EXCEPT !.characters = DictDel(@, character_id)])
                        ELSE config_file
       ELSE UNCHANGED <<CHARACTER_VOICES, config_file>>
    /\ prev' = 0
    /\ UNCHANGED <<CACHE_ENABLED, AUDIO_CACHE, VOICE_LIBRARY, req, genCalls>>
    /\ UNCHANGED <<snap, awsVars, stream, split, awsCall, client, admin>>

\* The characters of `characters` bound to voice_id (using_characters).
UsingCharacters(characters, voice_id) ==
    {c \in DOMAIN characters : characters[c].voice_id = voice_id}

\* DELETE /admin/delete-voice/<voice_id>: 404 for an unknown id, 400 for a voice
\* some character is bound to; else del VOICE_LIBRARY[voice_id], and the voice is
\* removed from the file when the file holds it.
admin_delete_voice(voice_id) ==
    /\ IF voice_id \in VOICE_LIBRARY /\ UsingCharacters(CHARACTER_VOICES, voice_id) = {}
       THEN /\ VOICE_LIBRARY' = VOICE_LIBRARY \ {voice_id}
            /\ LET config == load_config_file(config_file, VOICE_LIBRARY', CHARACTER_VOICES)
               IN  config_file' =
                        IF voice_id \in config.voices
                        THEN save_config_file([config EXCEPT !.voices = @ \ {voice_id}])
                        ELSE config_file
       ELSE UNCHANGED <<VOICE_LIBRARY, config_file>>
    /\ prev' = 0
    /\ UNCHANGED <<CACHE_ENABLED, AUDIO_CACHE, CHARACTER_VOICES, req, genCalls>>
    /\ UNCHANGED <<snap, awsVars, stream, split, awsCall, client, admin>>

\* POST /admin/reload-config: reload_voices_and_characters() updates VOICE_LIBRARY
\* and CHARACTER_VOICES with the "voices" and "characters" of the file.
admin_reload_config ==
    /\ LET config == load_config_file(config_file, VOICE_LIBRARY, CHARACTER_VOICES)
       IN  /\ VOICE_LIBRARY' = VOICE_LIBRARY \cup config.voices
           /\ CHARACTER_VOICES' = DictUpdate(CHARACTER_VOICES, config.characters)
    /\ prev' = 0
    /\ UNCHANGED <<CACHE_ENABLED, AUDIO_CACHE, req, genCalls>>
    /\ UNCHANGED <<snap, awsVars, stream, extVars>>

-----------------------------------------------------------------------------
(* The handlers that change the registry, run as concurrent threads (Flask,      *)
(* threaded=True): admin_delete_voice, set_character_voice and                   *)
(* admin_create_character each test the registry and then write it, without a    *)
(* lock.  A thread's pc names the statement it executes next.                    *)

AdminHandlers == {"admin_delete_voice", "set_character_voice", "admin_create_character"}

IdleAdmin ==
    [h \in AdminHandlers |-> [pc |-> "idle", character_id |-> "", voice_id |-> "", status |-> 0]]

\* A request for handler h arrives.
AdminCall(h, character_id, voice_id) ==
    /\ admin[h].pc = "idle"
    /\ admin' = [admin EXCEPT ![h] = [pc |-> "check", character_id |-> character_id,
                                      voice_id |-> voice_id, status |-> 0]]
    /\ UNCHANGED <<apiVars, awsVars, stream, split, awsCall, client, config_file>>

\* admin_delete_voice, lines 656-669: 404 for an unknown voice, 400 for a voice
\* that using_characters shows in use.
DeleteVoiceCheck ==
    LET f == admin["admin_delete_voice"]
    IN  /\ f.pc = "check"
        /\ admin' = [admin EXCEPT !["admin_delete_voice"] =
                IF f.voice_id \notin VOICE_LIBRARY THEN [f EXCEPT !.pc = "done", !.status = 404]
                ELSE IF UsingCharacters(CHARACTER_VOICES, f.voice_id) # {}
                THEN [f EXCEPT !.pc = "done", !.status = 400]
                ELSE [f EXCEPT !.pc = "write"]]
        /\ UNCHANGED <<apiVars, awsVars, stream, split, awsCall, client, config_file>>

\* admin_delete_voice, lines 672-685: del VOICE_LIBRARY[voice_id], and the voice
\* is removed from the file when the file holds it.
DeleteVoiceWrite ==
    LET f == admin["admin_delete_voice"]
    IN  /\ f.pc = "write"
        /\ VOICE_LIBRARY' = VOICE_LIBRARY \ {f.voice_id}
        /\ LET config == load_config_file(config_file, VOICE_LIBRARY', CHARACTER_VOICES)
           IN  config_file' =
                    IF f.voice_id \in config.voices
                    THEN save_config_file([config EXCEPT !.voices = @ \ {f.voice_id}])
                    ELSE config_file
        /\ admin' = [admin EXCEPT !["admin_delete_voice"] = [f EXCEPT !.pc = "done", !.status = 200]]
        /\ prev' = 0
        /\ UNCHANGED <<CACHE_ENABLED, AUDIO_CACHE, CHARACTER_VOICES, req, genCalls>>
        /\ UNCHANGED <<snap, awsVars, stream, split, awsCall, client>>

\* set_character_voice, lines 1091-1106: 404 for an unknown character, 400 for an
\* unknown voice.
SetVoiceCheck ==
    LET f == admin["set_character_voice"]
    IN  /\ f.pc = "check"
        /\ admin' = [admin EXCEPT !["set_character_voice"] =
                IF f.character_id \notin DOMAIN CHARACTER_VOICES
                THEN [f EXCEPT !.pc = "done", !.status = 404]
                ELSE IF f.voice_id \notin VOICE_LIBRARY
                THEN [f EXCEPT !.pc = "done", !.status = 400]
                ELSE [f EXCEPT !.pc = "write"]]
        /\ UNCHANGED <<apiVars, awsVars, stream, split, awsCall, client, config_file>>

\* set_character_voice, lines 1109-1118:
\* CHARACTER_VOICES[character_id]["voice_id"] = voice_id; the response reads
\* VOICE_LIBRARY[voice_id]["name"] (KeyError, 500, when the voice is gone).
SetVoiceWrite ==
    LET f == admin["set_character_voice"]
    IN  /\ f.pc = "write"
        /\ CHARACTER_VOICES' = [CHARACTER_VOICES EXCEPT ![f.character_id].voice_id = f.voice_id]
        /\ admin' = [admin EXCEPT !["set_character_voice"] =
                [f EXCEPT !.pc = "done",
                          !.status = IF f.voice_id \in VOICE_LIBRARY THEN 200 ELSE 500]]
        /\ prev' = 0
        /\ UNCHANGED <<CACHE_ENABLED, AUDIO_CACHE, VOICE_LIBRARY, req, genCalls>>
        /\ UNCHANGED <<snap, awsVars, stream, split, awsCall, client, config_file>>

\* admin_create_character, lines 598-605: 400 for a character id that exists or a
\* voice that does not.
CreateCharacterCheck ==
    LET f == admin["admin_create_character"]
    IN  /\ f.pc = "check"
        /\ admin' = [admin EXCEPT !["admin_create_character"] =
                IF f.character_id \in DOMAIN CHARACTER_VOICES \/ f.voice_id \notin VOICE_LIBRARY
                THEN [f EXCEPT !.pc = "done", !.status = 400]
                ELSE [f EXCEPT !.pc = "write"]]
        /\ UNCHANGED <<apiVars, awsVars, stream, split, awsCall, client, config_file>>

\* admin_create_character, lines 608-645: CHARACTER_VOICES[character_id] =
\* character_config, and the character is saved to the file.
CreateCharacterWrite ==
    LET f == admin["admin_create_character"]
        character_config == [voice_id |-> f.voice_id, language |-> "en"]
    IN  /\ f.pc = "write"
        /\ CHARACTER_VOICES' = DictSet(CHARACTER_VOICES, f.character_id, character_config)
        /\ LET config == load_config_file(config_file, VOICE_LIBRARY, CHARACTER_VOICES')
           IN  config_file' = save_config_file(
                    [config EXCEPT !.characters = DictSet(@, f.character_id, character_config)])
        /\ admin' = [admin EXCEPT !["admin_create_character"] =
                [f EXCEPT !.pc = "done", !.status = 200]]
        /\ prev' = 0
        /\ UNCHANGED <<CACHE_ENABLED, AUDIO_CACHE, VOICE_LIBRARY, req, genCalls>>
        /\ UNCHANGED <<snap, awsVars, stream, split, awsCall, client>>

-----------------------------------------------------------------------------
(* aws_tts_api HTTP handlers, one request handled on its own: /api/v1/tts,       *)
(* /api/v1/tts-json (`return generate_tts()`), /api/v1/tts-stream and            *)
(* /api/v1/tts-batch, with the generate_audio_bytes of aws_tts_api.              *)

\* SUPPORTED_LANGUAGES is imported from chatterbox.mtl_tts: the default language
\* of the characters and one more language stand for its members.
SUPPORTED_LANGUAGES == {"en", "fr"}

AwsEndpoints == {"/api/v1/tts", "/api/v1/tts-json", "/api/v1/tts-stream"}
AwsLanguages == {None, "fr", "xx"}
AwsBatchMaxTokens == 400

\* character["language"]: "en" for every character of aws_tts_api.
AwsCharacterLanguage(character_id) == "en"

\* language = language_override or character["language"], replaced by
\* character["language"] when it is not in SUPPORTED_LANGUAGES.
EffectiveLanguage(language_override, character_language) ==
    LET language == IF language_override # None THEN language_override
                                                ELSE character_language
    IN  IF language \notin SUPPORTED_LANGUAGES THEN character_language ELSE language

\* gen: model.generate calls made; max_new_tokens, language_id: the arguments of
\* the last one; status: the status code of the response; outcomes: what the model
\* did for the request, or for each item of a batch ("" when it was not called).
IdleAwsCall ==
    [pc |-> "idle", endpoint |-> "", text |-> "", character_id |-> "", language |-> None,
     gen |-> 0, max_new_tokens |-> 0, language_id |-> "", status |-> 0,
     items |-> <<>>, k |-> 0, results |-> <<>>, outcomes |-> <<>>]

CountsActive(endpoint) == endpoint \in {"/api/v1/tts", "/api/v1/tts-json"}

\* generate_tts / stream_tts up to the model.generate call of generate_audio_bytes.
\* generate_tts strips and checks the text, clamps max_tokens and passes the language;
\* stream_tts checks nothing, passes int(max_tokens) and no language.  An unknown
\* character is a ValueError: 400 from generate_tts, 500 from stream_tts.
AwsHttpCall(endpoint, text, character_id, max_tokens, language) ==
    /\ awsCall.pc = "idle"
    /\ LET t == Strip(text)
           f == [IdleAwsCall EXCEPT !.endpoint = endpoint, !.text = t,
                                    !.character_id = character_id, !.language = language]
           known == character_id \in AwsCharacters
       IN  IF endpoint = "/api/v1/tts-stream"
           THEN /\ awsCall' =
                    IF ~known THEN [f EXCEPT !.pc = "done", !.status = 500]
                    ELSE [f EXCEPT !.pc = "generate", !.gen = 1, !.max_new_tokens = max_tokens,
                                   !.language_id =
                                        EffectiveLanguage(None, AwsCharacterLanguage(character_id))]
                /\ UNCHANGED ACTIVE_REQUESTS
           ELSE IF t = "" \/ Len(t) > AwsMaxTextLength \/ ~known
           THEN /\ awsCall' = [f EXCEPT !.pc = "done", !.status = 400]
                /\ UNCHANGED ACTIVE_REQUESTS
           ELSE /\ awsCall' =
                    [f EXCEPT !.pc = "generate", !.gen = 1,
                              !.max_new_tokens = ClampTokens(max_tokens),
                              !.language_id =
                                    EffectiveLanguage(language, AwsCharacterLanguage(character_id))]
                /\ ACTIVE_REQUESTS' = ACTIVE_REQUESTS + 1
    /\ UNCHANGED <<aws, apiVars, stream, split, cliVars>>

\* model.generate returns, raises, or returns a zero-length wav (ValueError from
\* np.abs(wav_np).max()); generate_tts leaves through its finally clause.
AwsHttpGenerate(outcome) ==
    /\ awsCall.pc = "generate"
    /\ awsCall' = [awsCall EXCEPT !.pc = "done", !.outcomes = <<outcome>>, !.status =
            CASE outcome = "wav" -> 200
              [] outcome = "error" -> 500
              [] outcome = "empty" -> IF CountsActive(awsCall.endpoint) THEN 400 ELSE 500]
    /\ ACTIVE_REQUESTS' = IF CountsActive(awsCall.endpoint) THEN ACTIVE_REQUESTS - 1
                                                             ELSE ACTIVE_REQUESTS
    /\ UNCHANGED <<aws, apiVars, stream, split, cliVars>>

\* Items of a batch: a dict with "id", "text" and "character_id", or something
\* else (a string, a number, null).
BatchItem(id, is_dict, text, character_id) ==
    [id |-> id, is_dict |-> is_dict, text |-> text, character_id |-> character_id]

BatchItemKinds ==
    {BatchItem("ok", TRUE, " hello ", "narrator"),
     BatchItem("empty", TRUE, "  ", "narrator"),
     BatchItem("ghost", TRUE, "hello", "ghost"),
     BatchItem("malformed", FALSE, "", "")}

BatchLists == UNION {[1..n -> BatchItemKinds] : n \in 0..MaxBatch}

BatchResult(id, success, error) == [id |-> id, success |-> success, error |-> error]

\* generate_tts_batch is entered with data["requests"] = items.
AwsBatchCall(items) ==
    /\ awsCall.pc = "idle"
    /\ awsCall' = [IdleAwsCall EXCEPT !.pc = "batch", !.endpoint = "/api/v1/tts-batch",
                                      !.items = items, !.k = 1]
    /\ UNCHANGED <<ACTIVE_REQUESTS, aws, apiVars, stream, split, cliVars>>

\* An item that is no dict: req.get raises AttributeError, and so does the
\* req.get('id') of the handler of that exception, which leaves the loop for the
\* outer `except Exception`: 500 and no results.
OnMalformedItem(c) == [c EXCEPT !.pc = "done", !.status = 500, !.results = <<>>]

\* One iteration of the loop up to the model.generate call, or the return after
\* the last item.
AwsBatchItem ==
    /\ awsCall.pc = "batch"
    /\ IF awsCall.k > Len(awsCall.items)
       THEN awsCall' = [awsCall EXCEPT !.pc = "done", !.status = 200]
       ELSE LET req_ == awsCall.items[awsCall.k]
            IN  IF ~req_.is_dict THEN awsCall' = OnMalformedItem(awsCall)
                ELSE IF Strip(req_.text) = ""
                THEN awsCall' = [awsCall EXCEPT !.k = @ + 1, !.outcomes = Append(@, ""),
                        !.results =
                            Append(@, BatchResult(req_.id, FALSE, "Text cannot be empty"))]
                ELSE IF req_.character_id \notin AwsCharacters
                THEN awsCall' = [awsCall EXCEPT !.k = @ + 1, !.outcomes = Append(@, ""),
                        !.results =
                            Append(@, BatchResult(req_.id, FALSE, "Unknown character"))]
                ELSE awsCall' = [awsCall EXCEPT !.pc = "batch_generate", !.gen = @ + 1,
                        !.text = Strip(req_.text), !.character_id = req_.character_id,
                        !.max_new_tokens = AwsBatchMaxTokens,
                        !.language_id =
                            EffectiveLanguage(None, AwsCharacterLanguage(req_.character_id))]
    /\ UNCHANGED <<ACTIVE_REQUESTS, aws, apiVars, stream, split, cliVars>>

\* model.generate returns or fails for the item under way: a result, or the error
\* result of the inner `except Exception`.
AwsBatchGenerate(outcome) ==
    /\ awsCall.pc = "batch_generate"
    /\ awsCall' = [awsCall EXCEPT !.pc = "batch", !.k = @ + 1,
            !.outcomes = Append(@, outcome), !.results =
            Append(@, IF outcome = "wav"
                      THEN BatchResult(awsCall.items[awsCall.k].id, TRUE, "")
                      ELSE BatchResult(awsCall.items[awsCall.k].id, FALSE, outcome))]
    /\ UNCHANGED <<ACTIVE_REQUESTS, aws, apiVars, stream, split, cliVars>>

-----------------------------------------------------------------------------
(* streaming_tts.split_text_into_chunks.  A text is a sequence of characters. *)

UpperLetters ==
    {"A", "B", "C", "D", "E", "F", "G", "H", "I", "J", "K", "L", "M",
     "N", "O", "P", "Q", "R", "S", "T", "U", "V", "W", "X", "Y", "Z"}

IsUpper(c) == c \in UpperLetters
IsEnd(c) == c \in {".", "!", "?"}

RECURSIVE LStripChars(_)
LStripChars(s) == IF Len(s) > 0 /\ IsSpace(Head(s)) THEN LStripChars(Tail(s)) ELSE s

RECURSIVE RStripChars(_)
RStripChars(s) ==
    IF Len(s) > 0 /\ IsSpace(s[Len(s)]) THEN RStripChars(SubSeq(s, 1, Len(s) - 1)) ELSE s

\* str.strip() of a sequence of characters
StripChars(s) == RStripChars(LStripChars(s))

\* The first position from i on that holds no whitespace (Len(s) + 1 if none).
RECURSIVE SkipSpace(_, _)
SkipSpace(s, i) == IF i <= Len(s) /\ IsSpace(s[i]) THEN SkipSpace(s, i + 1) ELSE i

\* re.split(r'(?<=[.!?])\s+(?=[A-Z])', s) from position i on, the piece under way
\* starting at `start`: a whitespace run splits when it follows . ! or ? and an
\* upper-case letter follows it.
RECURSIVE SplitFrom(_, _, _)
SplitFrom(s, start, i) ==
    IF i > Len(s) THEN <<SubSeq(s, start, Len(s))>>
    ELSE IF i > 1 /\ IsEnd(s[i - 1]) /\ IsSpace(s[i])
         THEN LET j == SkipSpace(s, i)
              IN  IF j <= Len(s) /\ IsUpper(s[j])
                  THEN <<SubSeq(s, start, i - 1)>> \o SplitFrom(s, j, j)
                  ELSE SplitFrom(s, start, j)
         ELSE SplitFrom(s, start, i + 1)

\* sentences = re.split(sentence_pattern, text.strip())
Sentences(text) == SplitFrom(StripChars(text), 1, 1)

\* The loop of lines 43-60 over sentences[k..], and the final chunk of lines 63-64.
RECURSIVE Accumulate(_, _, _, _, _, _, _)
Accumulate(sentences, k, chunks, current_chunk, sentence_count, max_chars, max_sentences) ==
    IF k > Len(sentences)
    THEN IF current_chunk # <<>> THEN Append(chunks, current_chunk) ELSE chunks
    ELSE LET sentence == StripChars(sentences[k])
             potential_chunk == StripChars(current_chunk \o <<" ">> \o sentence)
         IN  IF sentence = <<>>
             THEN Accumulate(sentences, k + 1, chunks, current_chunk, sentence_count,
                             max_chars, max_sentences)
             ELSE IF Len(potential_chunk) > max_chars \/ sentence_count >= max_sentences
             THEN Accumulate(sentences, k + 1,
                             IF current_chunk # <<>> THEN Append(chunks, current_chunk)
                                                     ELSE chunks,
                             sentence, 1, max_chars, max_sentences)
             ELSE Accumulate(sentences, k + 1, chunks, potential_chunk, sentence_count + 1,
                             max_chars, max_sentences)

\* A segmenter that lets a chunk take one sentence more than max_sentences.
SplitOneSentenceMore(text, max_chars, max_sentences) ==
    Accumulate(Sentences(text), 1, <<>>, <<>>, 0, max_chars, max_sentences + 1)

\* A segmenter that drops the chunk under way at the end of the text.
SplitDropsLast(text, max_chars, max_sentences) ==
    LET chunks == Accumulate(Sentences(text), 1, <<>>, <<>>, 0, max_chars, max_sentences)
    IN  SubSeq(chunks, 1, Len(chunks) - 1)

split_text_into_chunks(text, max_chars, max_sentences) ==
    Accumulate(Sentences(text), 1, <<>>, <<>>, 0, max_chars, max_sentences)

DefaultMaxSentences == 3
DefaultMaxChunkChars == 150

\* One call of split_text_into_chunks(text, max_chars, max_sentences).
SplitAlphabet == {"A", "a", ".", " "}
SplitTexts == UNION {[1..n -> SplitAlphabet] : n \in 0..MaxTextLen}
SplitMaxChars == {1, 3, 5, DefaultMaxChunkChars}
SplitMaxSentences == {1, 2, DefaultMaxSentences}

NoSplit == [pc |-> "idle", text |-> <<>>, max_chars |-> 0, max_sentences |-> 0, chunks |-> <<>>]

SplitCall(text, max_chars, max_sentences) ==
    /\ split.pc = "idle"
    /\ split' = [NoSplit EXCEPT !.pc = "called", !.text = text, !.max_chars = max_chars,
                                !.max_sentences = max_sentences]
    /\ UNCHANGED <<apiVars, awsVars, stream, awsCall, cliVars>>

SplitReturn ==
    /\ split.pc = "called"
    /\ split' = [split EXCEPT !.pc = "returned",
                    !.chunks = split_text_into_chunks(split.text, split.max_chars,
                                                      split.max_sentences)]
    /\ UNCHANGED <<apiVars, awsVars, stream, awsCall, cliVars>>

-----------------------------------------------------------------------------
(* streaming_tts.generate_streaming_tts: a generator and its consumer.  The body *)
(* runs only inside the consumer's next(); between two next() the generator is  *)
(* suspended at its yield.                                                      *)

StreamAlphabet == {"A", "a", ".", " "}
StreamTexts == UNION {[1..n -> StreamAlphabet] : n \in 0..MaxTextLen}
StreamChunkChars == {3, DefaultMaxChunkChars}

NoStream ==
    [pc |-> "idle", text |-> <<>>, max_chunk_chars |-> 0, chunks |-> <<>>, i |-> 0,
     dispatched |-> <<>>, emitted |-> <<>>, cancelled |-> FALSE]

\* A terminal flag computed against the chunk count instead of the last index.
IsFinalOffByOne(i, total_chunks) == i = total_chunks

\* "is_final": (i == total_chunks - 1)
IsFinal(i, total_chunks) == i = total_chunks - 1

\* The record yielded for chunk i: chunk_data (lines 128-136) or the error chunk
\* (lines 145-151).
ChunkRecord(i, chunks, kind) ==
    [chunk_index |-> i, total_chunks |-> Len(chunks), text |-> chunks[i + 1],
     kind |-> kind, is_final |-> IsFinal(i, Len(chunks))]

\* generate_streaming_tts(text, character_id, generate_audio_fn, max_chunk_chars)
\* is called: Python creates the generator and runs none of its body.
StreamCall(text, max_chunk_chars) ==
    /\ stream.pc = "idle"
    /\ stream' = [NoStream EXCEPT !.pc = "created", !.text = text,
                                  !.max_chunk_chars = max_chunk_chars]
    /\ UNCHANGED <<apiVars, awsVars, extVars>>

\* The first next(): lines 103-110.  No chunks: the generator returns.
StreamStart ==
    /\ stream.pc = "created"
    /\ LET chunks == split_text_into_chunks(stream.text, stream.max_chunk_chars,
                                            DefaultMaxSentences)
       IN  stream' = [stream EXCEPT !.chunks = chunks,
                                    !.pc = IF chunks = <<>> THEN "done" ELSE "dispatch"]
    /\ UNCHANGED <<apiVars, awsVars, extVars>>

\* Lines 113-122: generate_audio_fn is called for chunk i.
StreamDispatch ==
    /\ stream.pc = "dispatch"
    /\ stream' = [stream EXCEPT !.pc = "generating",
                                !.dispatched = Append(@, stream.i)]
    /\ UNCHANGED <<apiVars, awsVars, extVars>>

\* The generator after generate_audio_fn returned: it yields chunk_data.
OnChunkAudio(s) ==
    [s EXCEPT !.pc = "suspended", !.emitted = Append(@, ChunkRecord(s.i, s.chunks, "audio"))]

\* A generator that lets the exception of a chunk end the stream.
OnChunkErrorRaise(s) == [s EXCEPT !.pc = "done"]

\* The generator after generate_audio_fn raised: `except Exception` yields the error
\* chunk.
OnChunkError(s) ==
    [s EXCEPT !.pc = "suspended", !.emitted = Append(@, ChunkRecord(s.i, s.chunks, "error"))]

StreamOutcomes == {"audio", "error"}

\* generate_audio_fn returns or raises, and the generator yields.
StreamYield(outcome) ==
    /\ stream.pc = "generating"
    /\ stream' = IF outcome = "audio" THEN OnChunkAudio(stream) ELSE OnChunkError(stream)
    /\ UNCHANGED <<apiVars, awsVars, extVars>>

\* The consumer's next() resumes the generator after its yield: the next
\* iteration of the loop, or the end of the generator.
StreamNext ==
    /\ stream.pc = "suspended"
    /\ stream' = IF stream.i + 1 < Len(stream.chunks)
                 THEN [stream EXCEPT !.pc = "dispatch", !.i = @ + 1]
                 ELSE [stream EXCEPT !.pc = "done"]
    /\ UNCHANGED <<apiVars, awsVars, extVars>>

\* A generator that goes on with the next chunk when it is closed.
OnCloseIgnored(s) ==
    IF s.pc = "suspended" /\ s.i + 1 < Len(s.chunks)
    THEN [s EXCEPT !.pc = "dispatch", !.i = @ + 1, !.cancelled = TRUE]
    ELSE [s EXCEPT !.pc = "aborted", !.cancelled = TRUE]

\* close() of the generator: GeneratorExit is raised at the yield (it is no
\* Exception, so `except Exception` does not catch it) and the generator ends.
OnClose(s) == [s EXCEPT !.pc = "aborted", !.cancelled = TRUE]

\* The consumer stops consuming (a client that disconnected, a dropped generator):
\* the generator is closed where it is suspended, or before it started.
StreamCancel ==
    /\ stream.pc \in {"created", "suspended"}
    /\ stream' = OnClose(stream)
    /\ UNCHANGED <<apiVars, awsVars, extVars>>

-----------------------------------------------------------------------------
(* tts_client.ChatterboxTTSClient.generate_audio: the retry loop around          *)
(* session.post(f'{api_url}/generate-audio', json=payload, timeout=timeout), the *)
(* server being api_server.                                                      *)

DefaultRetryAttempts == 3     \* __init__(..., retry_attempts: int = 3)

ClientTexts == {"", " hello "}
ClientCharacters == {"narrator", "ghost"}
ClientRetryAttempts == 0..DefaultRetryAttempts

\* attempt: the loop variable; posts: session.post calls made; r: the server
\* thread that handles the request under way; responses: what each attempt met
\* (history); error: the exception generate_audio raised.
IdleClient ==
    [pc |-> "idle", text |-> "", character |-> "", max_tokens |-> 0, retry_attempts |-> 0,
     attempt |-> 0, posts |-> 0, r |-> 0, responses |-> <<>>, error |-> ""]

\* What an attempt met: the status code of the response (0 without a response), the
\* "success" field of its body and the exception the attempt raises ("" if none).
Response(status, success, error) == [status |-> status, success |-> success, error |-> error]

\* A retry test that lets the last iteration `continue` too.
ShouldRetryOffByOne(attempt, retry_attempts) == attempt < retry_attempts

\* `if attempt < self.retry_attempts - 1` of the three except clauses
ShouldRetry(attempt, retry_attempts) == attempt < retry_attempts - 1

\* An except clause of the loop body: `continue` (the next iteration of
\* `for attempt in range(self.retry_attempts)`, or the `raise Exception("Max retry
\* attempts exceeded")` after the loop), or `raise`.
OnAttemptFailed(c, response) ==
    LET d == [c EXCEPT !.responses = Append(@, response), !.r = 0]
    IN  IF ShouldRetry(c.attempt, c.retry_attempts)
        THEN IF c.attempt + 1 < c.retry_attempts
             THEN [d EXCEPT !.pc = "post", !.attempt = @ + 1]
             ELSE [d EXCEPT !.pc = "raised", !.error = "Max retry attempts exceeded"]
        ELSE [d EXCEPT !.pc = "raised", !.error = response.error]

\* generate_audio(text, character, max_tokens=...) of a client constructed with
\* retry_attempts: the first iteration of the loop, if range(retry_attempts) has one.
ClientCall(text, character, max_tokens, retry_attempts) ==
    /\ client.pc = "idle"
    /\ LET c == [IdleClient EXCEPT !.text = text, !.character = character,
                                   !.max_tokens = max_tokens, !.retry_attempts = retry_attempts]
       IN  client' = IF retry_attempts > 0
                     THEN [c EXCEPT !.pc = "post"]
                     ELSE [c EXCEPT !.pc = "raised", !.error = "Max retry attempts exceeded"]
    /\ UNCHANGED <<apiVars, awsVars, stream, split, awsCall, admin, config_file>>

\* session.post: the request reaches the server, whose thread r handles it.
ClientPost(r) ==
    /\ client.pc = "post"
    /\ HttpEnter(r, "/generate-audio", client.text, client.character, None,
                 client.max_tokens, None)
    /\ client' = [client EXCEPT !.pc = "wait", !.posts = @ + 1, !.r = r]
    /\ UNCHANGED <<split, awsCall, admin, config_file>>

\* session.post raises requests.exceptions.ConnectionError: the request reaches
\* no handler.
ClientConnectionError ==
    /\ client.pc = "post"
    /\ client' = OnAttemptFailed([client EXCEPT !.posts = @ + 1],
                                 Response(0, FALSE, "ConnectionError"))
    /\ UNCHANGED <<apiVars, awsVars, stream, split, awsCall, admin, config_file>>

\* The response arrives: raise_for_status() raises HTTPError for 400 and 500;
\* a 200 of /generate-audio has "success": true and is returned.
ClientReceive ==
    /\ client.pc = "wait"
    /\ Finished(client.r)
    /\ LET status == HttpStatus(req[client.r])
       IN  client' = IF status = 200
                     THEN [client EXCEPT !.pc = "returned", !.r = 0,
                                !.responses = Append(@, Response(status, TRUE, ""))]
                     ELSE OnAttemptFailed(client, Response(status, FALSE, "HTTPError"))
    /\ req' = [req EXCEPT ![client.r] = IdleFrame]
    /\ prev' = 0
    /\ UNCHANGED <<CACHE_ENABLED, AUDIO_CACHE, VOICE_LIBRARY, CHARACTER_VOICES, genCalls>>
    /\ UNCHANGED <<snap, awsVars, stream, split, awsCall, admin, config_file>>

\* No response within `timeout` seconds: session.post raises
\* requests.exceptions.Timeout.  The server thread goes on with the request.
ClientTimeout ==
    /\ client.pc = "wait"
    /\ client' = OnAttemptFailed(client, Response(0, FALSE, "Timeout"))
    /\ UNCHANGED <<apiVars, awsVars, stream, split, awsCall, admin, config_file>>

\* The server thread of a request whose client has given up sends its response to
\* nobody and serves the next request.
AbandonedRespond(r) ==
    /\ client.r # r
    /\ HttpRespond(r)

-----------------------------------------------------------------------------
(* Initial state: the module-level assignments *)

InitApi ==
    /\ CACHE_ENABLED \in BOOLEAN
    /\ AUDIO_CACHE \in IF CACHE_ENABLED THEN {WarmCache(n) : n \in WarmSizes} ELSE {<<>>}
    /\ VOICE_LIBRARY = InitialVoices
    /\ CHARACTER_VOICES = InitialCharacters
    /\ req = [r \in Requests |-> IdleFrame]
    /\ genCalls = 0
    /\ prev = 0
    /\ snap = AUDIO_CACHE

InitAws ==
    /\ ACTIVE_REQUESTS = 0
    /\ aws = [a \in AwsRequests |-> [pc |-> "idle", tmp |-> 0]]

InitStream == stream = NoStream

InitExt ==
    /\ split = NoSplit
    /\ awsCall = IdleAwsCall
    /\ client = IdleClient
    /\ admin = IdleAdmin
    /\ config_file = NoFile

Init == InitApi /\ InitAws /\ InitStream /\ InitExt

\* Concurrent requests to generate_audio_bytes (Flask, threaded=True).
Next ==
    \/ \E r \in Requests :
        /\ req[r].pc = "idle"
        /\ \E text \in Texts, character_id \in CharacterInputs,
              voice_id \in VoiceInputs, use_cache \in BOOLEAN :
                Call(r, text, character_id, voice_id, use_cache)
    \/ \E r \in Requests : Step(r)

Spec == Init /\ [][Next]_vars

\* Sequential use: a request, or a voice reassignment, starts only when no request
\* is being served.
NoneActive == \A r \in Requests : ~Active(r)

ReassignCharacters == {"narrator"}
ReassignVoices == {"narrator", "expert", "nope"}

NextSeq ==
    \/ \E r \in Requests :
        /\ NoneActive /\ req[r].pc = "idle"
        /\ \E text \in Texts, character_id \in CharacterInputs,
              voice_id \in VoiceInputs, use_cache \in BOOLEAN :
                Call(r, text, character_id, voice_id, use_cache)
    \/ \E r \in Requests : Step(r)
    \/ /\ NoneActive
       /\ \E character_id \in ReassignCharacters, voice_id \in ReassignVoices :
            set_character_voice(character_id, voice_id)

SpecSeq == Init /\ [][NextSeq]_vars

\* The aws_tts_api server alone (the api_server state is that of a cold start).
InitAwsServer ==
    /\ CACHE_ENABLED = TRUE
    /\ AUDIO_CACHE = <<>>
    /\ VOICE_LIBRARY = InitialVoices
    /\ CHARACTER_VOICES = InitialCharacters
    /\ req = [r \in Requests |-> IdleFrame]
    /\ genCalls = 0
    /\ prev = 0
    /\ snap = <<>>
    /\ InitAws
    /\ InitStream
    /\ InitExt

NextAws ==
    \E a \in AwsRequests :
        \/ AwsIncRead(a)
        \/ AwsIncWrite(a)
        \/ \E text \in AwsTexts, character_id \in AwsCharacterInputs :
                AwsValidate(a, text, character_id)
        \/ \E outcome \in ModelOutcomes : AwsGenerate(a, outcome)
        \/ AwsDecRead(a)
        \/ AwsDecWrite(a)

SpecAws == InitAwsServer /\ [][NextAws]_vars

\* One streaming request (the other state is that of a cold start).
NextStream ==
    \/ /\ stream.pc = "idle"
       /\ \E text \in StreamTexts, max_chunk_chars \in StreamChunkChars :
            StreamCall(text, max_chunk_chars)
    \/ StreamStart
    \/ StreamDispatch
    \/ \E outcome \in StreamOutcomes : StreamYield(outcome)
    \/ StreamNext
    \/ StreamCancel

SpecStream == InitAwsServer /\ [][NextStream]_vars

\* One call of split_text_into_chunks (the other state is that of a cold start).
NextSplit ==
    \/ /\ split.pc = "idle"
       /\ \E text \in SplitTexts, max_chars \in SplitMaxChars,
             max_sentences \in SplitMaxSentences :
                SplitCall(text, max_chars, max_sentences)
    \/ SplitReturn

SpecSplit == InitAwsServer /\ [][NextSplit]_vars

\* The api_server handlers, one request or admin operation at a time, at most
\* MaxGenCalls of them synthesizing.
AllIdle == \A r \in Requests : req[r].pc = "idle"

\* The two servers are processes of their own: a behaviour exercises one of them.
ApiUntouched ==
    AllIdle /\ genCalls = 0 /\ CHARACTER_VOICES = InitialCharacters /\ VOICE_LIBRARY = InitialVoices

\* A cold start, or a start on a full cache.
InitHttp ==
    /\ CACHE_ENABLED = TRUE
    /\ AUDIO_CACHE \in {WarmCache(0), WarmCache(MAX_CACHE_SIZE)}
    /\ VOICE_LIBRARY = InitialVoices
    /\ CHARACTER_VOICES = InitialCharacters
    /\ req = [r \in Requests |-> IdleFrame]
    /\ genCalls = 0
    /\ prev = 0
    /\ snap = AUDIO_CACHE
    /\ InitAws
    /\ InitStream
    /\ InitExt

CreateCharacters == {"ghost"}
DeleteCharacters == {"narrator"}
DeleteVoices == {"child", "expert"}

NextHttp ==
    \/ \E r \in Requests :
        /\ AllIdle /\ genCalls < MaxGenCalls /\ awsCall.pc = "idle"
        /\ \E endpoint \in HttpEndpoints, text \in HttpTexts, character_id \in HttpCharacters,
              voice_id \in HttpVoices, max_tokens \in HttpMaxTokens, language \in HttpLanguages :
                /\ endpoint # "/generate-audio" => voice_id = None /\ language = None
                /\ HttpCall(r, endpoint, text, character_id, voice_id, max_tokens, language)
    \/ \E r \in Requests : Step(r)
    \/ \E r \in Requests : HttpRespond(r)
    \/ /\ AllIdle /\ awsCall.pc = "idle"
       /\ \/ \E character_id \in ReassignCharacters, voice_id \in ReassignVoices :
                set_character_voice(character_id, voice_id)
          \/ \E character_id \in CreateCharacters : admin_create_character(character_id, "expert", "en")
          \/ \E character_id \in DeleteCharacters : admin_delete_character(character_id)
          \/ \E voice_id \in DeleteVoices : admin_delete_voice(voice_id)
    \/ /\ ApiUntouched /\ awsCall.pc = "idle"
       /\ \E endpoint \in AwsEndpoints, text \in AwsTexts, character_id \in AwsCharacterInputs,
             max_tokens \in HttpMaxTokens, language \in AwsLanguages :
                /\ endpoint = "/api/v1/tts-stream" => language = None
                /\ AwsHttpCall(endpoint, text, character_id, max_tokens, language)
    \/ \E outcome \in ModelOutcomes : AwsHttpGenerate(outcome)
    \/ /\ ApiUntouched /\ awsCall.pc = "idle"
       /\ \E items \in BatchLists : AwsBatchCall(items)
    \/ AwsBatchItem
    \/ \E outcome \in ModelOutcomes : AwsBatchGenerate(outcome)

SpecHttp == InitHttp /\ [][NextHttp]_vars

\* One call of ChatterboxTTSClient.generate_audio against api_server.
NextClient ==
    \/ /\ client.pc = "idle"
       /\ \E text \in ClientTexts, character \in ClientCharacters,
             retry_attempts \in ClientRetryAttempts :
                ClientCall(text, character, DEFAULT_MAX_TOKENS, retry_attempts)
    \/ \E r \in Requests : ClientPost(r)
    \/ ClientConnectionError
    \/ \E r \in Requests : Step(r)
    \/ ClientReceive
    \/ ClientTimeout
    \/ \E r \in Requests : AbandonedRespond(r)

SpecClient == InitHttp /\ [][NextClient]_vars

\* Every session.post ends, by a response or by its timeout, and the server
\* threads run: the steps of the client and of the server are taken eventually.
SpecClientFair == SpecClient /\ WF_vars(NextClient)

\* The registry handlers, one operation at a time.
UploadVoices == {"custom"}
RegistryVoices == {"narrator", "child", "custom", "nope"}
RegistryCharacters == {"narrator", "ghost"}

NextRegistry ==
    \/ \E voice_id \in UploadVoices : admin_upload_voice(voice_id)
    \/ \E character_id \in RegistryCharacters, voice_id \in RegistryVoices :
            admin_create_character(character_id, voice_id, "en")
    \/ \E voice_id \in RegistryVoices : admin_delete_voice(voice_id)
    \/ \E character_id \in RegistryCharacters : admin_delete_character(character_id)
    \/ \E character_id \in RegistryCharacters, voice_id \in RegistryVoices :
            set_character_voice(character_id, voice_id)
    \/ admin_reload_config

SpecRegistry == InitAwsServer /\ [][NextRegistry]_vars

\* The registry handlers as concurrent threads, one request for each.
NextAdmin ==
    \/ \E voice_id \in RegistryVoices : AdminCall("admin_delete_voice", "", voice_id)
    \/ \E character_id \in RegistryCharacters, voice_id \in RegistryVoices :
            AdminCall("set_character_voice", character_id, voice_id)
    \/ \E character_id \in RegistryCharacters, voice_id \in RegistryVoices :
            AdminCall("admin_create_character", character_id, voice_id)
    \/ DeleteVoiceCheck
    \/ DeleteVoiceWrite
    \/ SetVoiceCheck
    \/ SetVoiceWrite
    \/ CreateCharacterCheck
    \/ CreateCharacterWrite

SpecAdmin == InitAwsServer /\ [][NextAdmin]_vars

-----------------------------------------------------------------------------
(* Properties of the cache and of generate_audio_bytes *)

Called(r) == req[r].pc # "idle"
Args(r) == <<req[r].text, req[r].character_id, req[r].voice_id>>
Entry(r) == [key |-> req[r].key, val |-> req[r].result]

\* C1: for any cache key at most one model.generate call made by
\* generate_audio_bytes is in flight at any time: concurrent requests with the same
\* text, character and voice override invoke the model once.
C1_SingleFlightPerKey ==
    \A r1, r2 \in Requests :
        (r1 # r2 /\ req[r1].use_cache /\ req[r2].use_cache
            /\ req[r1].pc = "generate" /\ req[r2].pc = "generate")
        => req[r1].key # req[r2].key

\* C2: the number of model.generate calls in flight never exceeds the pool size
\* MAX_CONCURRENT_REQUESTS; a request arriving when the pool is full does not start
\* synthesis until a slot frees.
C2_PoolBound ==
    Cardinality({a \in AwsRequests : aws[a].pc = "generate"}) <= MAX_CONCURRENT_REQUESTS

\* C3: of two immediately sequential identical calls of generate_audio_bytes
\* (use_cache=True, cache enabled) of which the first returns audio, the second
\* hits the cache, calls model.generate not at all and returns what the first
\* returned; the two make one model.generate call in total when the first was a
\* miss (none when the first was itself served from the cache).
C3_SecondCallHits ==
    \A r \in Requests :
        LET p == req[r].pred
        IN  (/\ Finished(r) /\ p # 0 /\ CACHE_ENABLED
             /\ Args(p) = Args(r) /\ req[p].use_cache /\ req[r].use_cache)
            => /\ req[r].pc = "done"
               /\ req[r].hit
               /\ req[r].gen = 0
               /\ req[r].result = req[p].result
               /\ req[p].gen + req[r].gen = (IF req[p].hit THEN 0 ELSE 1)

\* C3 witness: a miss that synthesized, immediately followed by an identical call
\* that has returned.
C3_Witness ==
    \E r \in Requests :
        /\ Finished(r) /\ req[r].pred # 0 /\ CACHE_ENABLED
        /\ Args(req[r].pred) = Args(r) /\ req[req[r].pred].use_cache /\ req[r].use_cache
        /\ req[req[r].pred].gen = 1
        /\ req[r].hit

\* The cache that a store of `entry` into `cache` leaves under FIFO eviction.
FifoAfterStore(cache, entry) ==
    (IF Len(cache) >= MAX_CACHE_SIZE THEN Tail(cache) ELSE cache) \o <<entry>>

C5_CacheBounded == Len(AUDIO_CACHE) <= MAX_CACHE_SIZE

\* C6: requests that differ in text, character id or voice override never share a
\* cache key, so audio returned to a request was synthesized for that request's
\* (text, character id, voice override).
C6_NoAudioOfAnotherTriple ==
    /\ \A r1, r2 \in Requests :
            (Called(r1) /\ Called(r2) /\ Args(r1) # Args(r2)) => req[r1].key # req[r2].key
    /\ \A r \in Requests : req[r].pc = "done" => req[r].result.args = Args(r)

\* C7: after set_character_voice, a request with the same text and character and no
\* voice override uses another key than before the reassignment: it is a miss and
\* is synthesized with the character's new voice.
C7_ReassignmentChangesKey ==
    \A r1, r2 \in Requests :
        (/\ req[r1].pc = "done" /\ req[r2].pc = "done"
         /\ req[r1].use_cache /\ req[r2].use_cache
         /\ req[r1].text = req[r2].text /\ req[r1].character_id = req[r2].character_id
         /\ req[r1].voice_id = None /\ req[r2].voice_id = None
         /\ req[r1].bound_voice # req[r2].bound_voice)
        => /\ req[r1].key # req[r2].key
           /\ req[r1].result.voice = req[r1].bound_voice
           /\ req[r2].result.voice = req[r2].bound_voice

-----------------------------------------------------------------------------
(* Properties of generate_streaming_tts *)

ChunkIndexes(n) == [k \in 1..n |-> k - 1]

\* C8: a failure of generate_audio_fn on a chunk never aborts the stream.  The
\* records emitted carry the indexes 0, 1, ... in order, each once, each with its
\* chunk's source text and an error record exactly for the chunks that failed
\* (none is dispatched twice); a stream that ran to its end over n chunks has
\* dispatched and emitted all n.
C8_FailureDoesNotAbort ==
    LET n == Len(stream.chunks)
        e == stream.emitted
    IN  /\ Len(e) <= n
        /\ \A k \in 1..Len(e) : e[k].chunk_index = k - 1 /\ e[k].text = stream.chunks[k]
        /\ stream.dispatched \in {ChunkIndexes(Len(e)), ChunkIndexes(Len(e) + 1)}
        /\ stream.pc = "done" => Len(e) = n /\ stream.dispatched = ChunkIndexes(n)

\* C8 witness: a finished stream of three chunks whose second chunk failed and
\* whose third was emitted with audio.
C8_Witness ==
    /\ stream.pc = "done"
    /\ Len(stream.chunks) = 3
    /\ Len(stream.emitted) = 3
    /\ stream.emitted[2].kind = "error"
    /\ stream.emitted[2].text = stream.chunks[2]
    /\ stream.emitted[3].kind = "audio"

FinalRecords(e) == {k \in 1..Len(e) : e[k].is_final}

\* C9 as stated: every stream that ran to completion ends with a chunk whose
\* is_final is true, the flag being set exactly once, at index total_chunks - 1.
C9_EveryStreamEndsFinal ==
    stream.pc = "done"
    => /\ FinalRecords(stream.emitted) = {Len(stream.emitted)}
       /\ Len(stream.emitted) >= 1
       /\ stream.emitted[Len(stream.emitted)].chunk_index = Len(stream.chunks) - 1

\* C9, amended: every emitted chunk reports total_chunks = the number of chunks and
\* has is_final true exactly when its index is total_chunks - 1, whether it carries
\* audio or an error; a stream over at least one chunk that ran to completion has
\* set the flag exactly once, on its last record.  (A text without chunks yields an
\* empty stream: no record, no final flag.)
C9_TerminalFlag ==
    LET n == Len(stream.chunks)
        e == stream.emitted
    IN  /\ \A k \in 1..Len(e) : e[k].total_chunks = n /\ (e[k].is_final <=> e[k].chunk_index = n - 1)
        /\ \A k \in FinalRecords(e) : k = n
        /\ (stream.pc = "done" /\ n >= 1) => FinalRecords(e) = {Len(e)}
        /\ (stream.pc = "done" /\ n = 0) => e = <<>>

\* C9 witness: a finished stream of several chunks whose last chunk failed.
C9_Witness ==
    /\ stream.pc = "done"
    /\ Len(stream.chunks) >= 2
    /\ stream.emitted[Len(stream.emitted)].kind = "error"
    /\ stream.emitted[Len(stream.emitted)].is_final
    /\ ~stream.emitted[1].is_final

\* C10: once the consumer has stopped consuming after chunk i was emitted, no
\* generate_audio_fn call is dispatched for a later chunk (the chunks dispatched are
\* the chunks emitted), and the stream is aborted only by that cancellation, not by
\* the failure of a chunk.
C10_NoDispatchAfterCancel ==
    /\ stream.cancelled
        => /\ stream.pc = "aborted"
           /\ stream.dispatched = ChunkIndexes(Len(stream.emitted))
    /\ stream.pc = "aborted" => stream.cancelled

\* C10 witness: a stream cancelled after its first chunk failed, with chunks left.
C10_Witness ==
    /\ stream.cancelled
    /\ stream.pc = "aborted"
    /\ Len(stream.emitted) = 1
    /\ stream.emitted[1].kind = "error"
    /\ Len(stream.chunks) > 1

-----------------------------------------------------------------------------
(* Properties of split_text_into_chunks *)

\* The number of sentences (pieces of the sentence pattern) a chunk holds.
SentenceCount(chunk) == Len(Sentences(chunk))

\* C11: for every text and positive max_chars and max_sentences, every chunk
\* returned by split_text_into_chunks has at most max_chars characters or is a
\* single sentence, and holds at most max_sentences sentences; with
\* max_sentences = 1 the chunks are exactly the sentences of the text.
C11_ChunkLimits ==
    split.pc = "returned"
    => /\ \A k \in 1..Len(split.chunks) :
            /\ Len(split.chunks[k]) <= split.max_chars \/ SentenceCount(split.chunks[k]) = 1
            /\ SentenceCount(split.chunks[k]) <= split.max_sentences
       /\ (split.max_sentences = 1 /\ StripChars(split.text) # <<>>)
            => split.chunks = Sentences(split.text)

\* C11 witness: three sentences returned as three chunks under max_sentences = 1,
\* the first a single sentence longer than max_chars.
C11_Witness ==
    /\ split.pc = "returned"
    /\ split.max_sentences = 1
    /\ Len(split.chunks) = 3
    /\ Len(split.chunks[1]) > split.max_chars

RECURSIVE FlattenSentences(_)
FlattenSentences(chunks) ==
    IF chunks = <<>> THEN <<>>
    ELSE Sentences(Head(chunks)) \o FlattenSentences(Tail(chunks))

RECURSIVE Join(_)
Join(seqs) == IF seqs = <<>> THEN <<>> ELSE Head(seqs) \o Join(Tail(seqs))

NonSpace(s) == SelectSeq(s, LAMBDA c : ~IsSpace(c))

NonEmpty(seqs) == SelectSeq(seqs, LAMBDA x : x # <<>>)

\* C12: split_text_into_chunks loses, duplicates and reorders nothing.  Every chunk
\* is non-empty; the sentences of the chunks, in order, are the non-empty sentences
\* of the text in their order; the characters of the chunks other than whitespace
\* are those of the text; an empty or whitespace-only text gives no chunk.
C12_NothingLost ==
    split.pc = "returned"
    => /\ \A k \in 1..Len(split.chunks) : split.chunks[k] # <<>>
       /\ FlattenSentences(split.chunks) = NonEmpty(Sentences(split.text))
       /\ NonSpace(Join(split.chunks)) = NonSpace(split.text)
       /\ StripChars(split.text) = <<>> => split.chunks = <<>>

\* C12 witness: a text with leading whitespace and a doubled separator between its
\* two sentences, returned as two chunks.
C12_Witness ==
    /\ split.pc = "returned"
    /\ Len(split.chunks) = 2
    /\ Len(NonEmpty(Sentences(split.text))) = 2
    /\ IsSpace(split.text[1])
    /\ Len(split.text) >= Len(Join(split.chunks)) + 3

-----------------------------------------------------------------------------
(* Properties of the HTTP handlers *)

Synthesizing == {"generate", "store", "evict_read", "evict_del", "put"}

InvalidText(text) == text = "" \/ Len(text) > MAX_TEXT_LENGTH

\* C13: a request whose character id is not registered makes no model.generate
\* call and leaves the cache as it was, on the api_server endpoints, /api/v1/tts,
\* /api/v1/tts-json, /api/v1/tts-stream and for an item of /api/v1/tts-batch;
\* /generate-audio answers 400 with success = false.
C13_UnknownCharacterNoSynthesis ==
    /\ \A r \in Requests :
            (req[r].endpoint # "" /\ ~req[r].char_known)
            => /\ req[r].gen = 0
               /\ req[r].pc \notin Synthesizing
               /\ AUDIO_CACHE = snap
               /\ (req[r].endpoint = "/generate-audio" /\ Finished(r))
                    => req[r].pc = "failed" /\ HttpStatus(req[r]) = 400
    /\ (awsCall.endpoint \in AwsEndpoints /\ awsCall.character_id \notin AwsCharacters)
            => awsCall.gen = 0 /\ (awsCall.pc = "done" => awsCall.status \in {400, 500})
    /\ awsCall.pc = "batch_generate"
            => awsCall.items[awsCall.k].character_id \in AwsCharacters
    /\ \A k \in 1..Len(awsCall.results) :
            (awsCall.items[k].is_dict /\ awsCall.items[k].character_id \notin AwsCharacters)
            => ~awsCall.results[k].success

\* C13 witness: /tts answered "Unknown character" (400) on a full cache, no
\* model.generate call made.
C13_Witness ==
    \E r \in Requests :
        /\ req[r].endpoint = "/tts" /\ req[r].character_id = "ghost" /\ ~req[r].char_known
        /\ req[r].pc = "failed" /\ req[r].error = "Unknown character"
        /\ HttpStatus(req[r]) = 400
        /\ Len(AUDIO_CACHE) = MAX_CACHE_SIZE

\* C14: generate_audio_bytes fails with an unknown-character error whenever the
\* character id is not registered at the time of the call, after any sequence of
\* character creations, deletions and earlier successful requests: such a call
\* never returns audio.
C14_AbsentCharacterNeverServed ==
    \A r \in Requests :
        (Finished(r) /\ req[r].endpoint # "" /\ ~req[r].rejected /\ ~req[r].char_known)
        => /\ req[r].pc = "failed"
           /\ req[r].error = "Unknown character"
           /\ req[r].result = NoAudio

\* C15: on every entry point a request with empty or whitespace-only text, or with
\* text longer than the maximum length, is rejected before any resource is
\* consumed: the handler does not call generate_audio_bytes (no cache lookup, no
\* model.generate call, no store).
C15_InvalidTextRejected ==
    /\ \A r \in Requests :
            (req[r].endpoint # "" /\ req[r].pc # "idle" /\ InvalidText(req[r].text))
            => req[r].rejected /\ req[r].gen = 0
    /\ (awsCall.endpoint \in AwsEndpoints /\ InvalidText(awsCall.text))
            => awsCall.gen = 0 /\ awsCall.pc # "generate"
    /\ awsCall.pc = "batch_generate" => ~InvalidText(awsCall.text)

C17_ReportedVoiceIsUsedVoice ==
    \A r \in Requests :
        (req[r].endpoint = "/generate-audio" /\ req[r].pc = "done")
        => ResponseVoice(req[r]) = req[r].result.voice

TokenRange == MinTokens..MaxTokens

\* C18: on every entry point the max_new_tokens passed to model.generate lies in
\* [100, 1000], whatever max_tokens the caller supplies.
C18_MaxTokensClamped ==
    /\ \A r \in Requests : req[r].gen > 0 => req[r].max_new_tokens \in TokenRange
    /\ awsCall.gen > 0 => awsCall.max_new_tokens \in TokenRange

\* C19: the language passed to model.generate is the request's language override
\* when it is given and supported, and the character's default language otherwise.
C19_EffectiveLanguage ==
    /\ \A r \in Requests :
            (req[r].endpoint # "" /\ req[r].pc = "generate")
            => req[r].language_id =
                    EffectiveLanguage(req[r].language,
                                      CHARACTER_VOICES[req[r].character_id].language)
    /\ awsCall.pc = "generate"
            => awsCall.language_id =
                    EffectiveLanguage(awsCall.language, AwsCharacterLanguage(awsCall.character_id))

\* The outcome of a batch item that the claim expects without a model failure:
\* an error for an item that is no dict, has no text or names an unknown character.
ItemMustFail(item) ==
    ~item.is_dict \/ Strip(item.text) = "" \/ item.character_id \notin AwsCharacters

\* C20: the response of /api/v1/tts-batch holds one result per item, in the order
\* of the items, and a failing item (empty text, unknown character, model failure,
\* malformed item) yields an error result for that item without failing the batch.
C20_BatchItemsIndependent ==
    (awsCall.endpoint = "/api/v1/tts-batch" /\ awsCall.pc = "done")
    => /\ awsCall.status = 200
       /\ Len(awsCall.results) = Len(awsCall.items)
       /\ \A k \in 1..Len(awsCall.items) :
            /\ awsCall.items[k].is_dict => awsCall.results[k].id = awsCall.items[k].id
            /\ ItemMustFail(awsCall.items[k]) => ~awsCall.results[k].success

-----------------------------------------------------------------------------
(* Properties of the cache layer when it is disabled or fails *)

\* What generate_audio_bytes returns when it synthesizes for request r.
Synthesized(r) ==
    Audio(req[r].text, req[r].character_id,
          ActualVoice(CHARACTER_VOICES, req[r].character_id, req[r].voice_id),
          req[r].call, Args(r))

\* C22: when the cache is disabled (AUDIO_CACHE is None) every lookup is a miss and
\* every store is a no-op, and generate_audio_bytes returns what it returns on a
\* miss with the cache enabled: each request that returns has made its own
\* model.generate call and returns the audio of that call.
C22_DisabledCacheAlwaysMisses ==
    /\ ~CACHE_ENABLED
        => /\ AUDIO_CACHE = <<>>
           /\ \A r \in Requests :
                /\ ~req[r].hit
                /\ req[r].pc \notin {"hit", "evict_read", "evict_del", "put"}
                /\ req[r].pc = "done" => req[r].gen = 1
    /\ \A r \in Requests :
            (req[r].pc = "done" /\ (~CACHE_ENABLED \/ ~req[r].hit))
            => req[r].result = Synthesized(r)

\* C22 witness: with the cache disabled, two identical requests that asked for the
\* cache have returned, each with the audio of a model.generate call of its own.
C22_Witness ==
    /\ ~CACHE_ENABLED
    /\ \E r1, r2 \in Requests :
        /\ r1 # r2 /\ Args(r1) = Args(r2)
        /\ req[r1].use_cache /\ req[r2].use_cache
        /\ req[r1].pc = "done" /\ req[r2].pc = "done"
        /\ req[r1].gen = 1 /\ req[r2].gen = 1
        /\ req[r1].result # req[r2].result

\* C24: a cache entry is written only after a successful synthesis.  When
\* generate_audio_bytes fails (unknown character, unknown voice, model failure,
\* zero-length output) AUDIO_CACHE is what it was when the call was made and does
\* not hold the key of the request, so that a later identical request misses and
\* synthesizes again; and the cache changes only in the cache_audio of a request
\* whose model.generate call returned audio.
C24_FailureLeavesCacheUntouched ==
    /\ [](\A r \in Requests :
            (req[r].pc = "failed" /\ req[r].endpoint # "" /\ ~req[r].rejected)
            => /\ AUDIO_CACHE = snap
               /\ req[r].key \notin CacheKeys(AUDIO_CACHE))
    /\ [][AUDIO_CACHE' # AUDIO_CACHE
            => \E r \in Requests :
                    /\ req[r].pc \in {"evict_del", "put"}
                    /\ req[r].outcome = "wav"
                    /\ req'[r].pc # "failed"]_vars

\* C24 witness: a /tts request on a full cache whose model.generate call failed; the
\* cache is as the request found it.
C24_Witness ==
    \E r \in Requests :
        /\ req[r].endpoint = "/tts" /\ req[r].pc = "failed" /\ req[r].outcome = "error"
        /\ Len(AUDIO_CACHE) = MAX_CACHE_SIZE
        /\ AUDIO_CACHE = snap

\* C25: when the model returns zero-length audio, generate_audio_bytes ends in an
\* error (of api_server and of aws_tts_api alike): the request fails without a
\* result, and a request that returns audio it synthesized got a non-empty wav
\* from the model.
C25_EmptyOutputIsError ==
    /\ \A r \in Requests :
            /\ req[r].outcome = "empty"
                => req[r].pc = "failed" /\ req[r].result = NoAudio /\ req[r].error # ""
            /\ (req[r].pc \in {"store", "evict_read", "evict_del", "put", "done"} /\ ~req[r].hit)
                => req[r].outcome = "wav"
    /\ awsCall.endpoint \in AwsEndpoints
            => \A k \in 1..Len(awsCall.outcomes) :
                    awsCall.outcomes[k] = "empty" => awsCall.status \in {400, 500}
    /\ awsCall.endpoint = "/api/v1/tts-batch"
            => \A k \in 1..Len(awsCall.results) :
                    awsCall.outcomes[k] = "empty" => ~awsCall.results[k].success

\* C25 witness: the model returned a zero-length wav for a /tts request, which is
\* answered 400 (the ValueError of the normalisation), on a cache left empty.
C25_Witness ==
    \E r \in Requests :
        /\ req[r].endpoint = "/tts" /\ req[r].outcome = "empty"
        /\ req[r].pc = "failed" /\ req[r].error = "ValueError"
        /\ HttpStatus(req[r]) = 400
        /\ AUDIO_CACHE = <<>>

\* C27: the audio returned and cached for a request is synthesized from the whole
\* request text: for every text that passes the input validation (at most
\* MAX_TEXT_LENGTH characters) the text passed to model.generate is the text the
\* cache key is computed from.
C27_WholeTextSynthesized ==
    \A r \in Requests :
        (req[r].endpoint # "" /\ Len(req[r].text) <= MAX_TEXT_LENGTH)
        => /\ req[r].gen > 0 => ModelText(req[r].text) = req[r].text
           /\ (req[r].pc = "done" /\ ~req[r].hit) => req[r].result.text = req[r].text

\* C28: a cache store never turns a successful synthesis into a failed request.
\* Under any interleaving of concurrent cache_audio calls on a full cache every
\* call completes without error: a request whose model.generate call returned
\* audio returns that audio.
C28_StoreNeverFailsRequest ==
    \A r \in Requests :
        req[r].outcome = "wav" => req[r].pc # "failed" /\ req[r].error = ""

-----------------------------------------------------------------------------
(* Properties of aws_tts_api.ACTIVE_REQUESTS *)

\* The /api/v1/tts requests between their `ACTIVE_REQUESTS += 1` and their
\* `ACTIVE_REQUESTS -= 1`.
AwsExecuting == {a \in AwsRequests : aws[a].pc \in {"validate", "generate", "finally", "dec"}}

AwsInFlight == {a \in AwsRequests : aws[a].pc \notin {"idle", "done"}}

\* C29: ACTIVE_REQUESTS equals the number of /api/v1/tts requests that are
\* executing: under any interleaving of concurrent requests it is never negative,
\* never more than the number of requests in flight, and 0 when none is in flight.
C29_ActiveRequestsCounts ==
    /\ ACTIVE_REQUESTS >= 0
    /\ ACTIVE_REQUESTS <= Cardinality(AwsInFlight)
    /\ AwsInFlight = {} => ACTIVE_REQUESTS = 0
    /\ (\A a \in AwsRequests : aws[a].pc \notin {"inc", "dec"})
            => ACTIVE_REQUESTS = Cardinality(AwsExecuting)

-----------------------------------------------------------------------------
(* Properties of ChatterboxTTSClient.generate_audio *)

\* The attempts of the call that were answered by the server with an error: 400
\* (invalid input, unknown character or voice) or 500 (the synthesis failed).
AnsweredWithError(k) == client.responses[k].status \in {400, 500}

\* C21: a request rejected for invalid input or for an unknown character or voice
\* is never retried, and a failed synthesis call is never retried automatically:
\* an attempt that the server answered with an error is the last attempt of
\* generate_audio (no POST follows it), and a request makes one model.generate
\* call at most on the server.
C21_NoRetryAfterRejection ==
    /\ \A k \in 1..Len(client.responses) :
            AnsweredWithError(k)
            => /\ k = Len(client.responses)
               /\ client.posts = k
               /\ client.pc = "raised"
    /\ \A r \in Requests : req[r].gen <= 1

\* The loop of generate_audio: the requests sent, and how the call ends.
ClientBounded ==
    LET n == Len(client.responses)
    IN  /\ client.posts <= client.retry_attempts
        /\ client.attempt < client.retry_attempts \/ client.retry_attempts = 0
        /\ client.posts = IF client.pc = "wait" THEN n + 1 ELSE n
        /\ client.pc = "post" => client.posts = client.attempt
        /\ client.pc = "wait" => client.posts = client.attempt + 1
        /\ \A k \in 1..n : client.responses[k].success => k = n /\ client.pc = "returned"
        /\ client.pc = "returned" => n >= 1 /\ client.responses[n].success
        /\ client.pc = "raised"
            => /\ n = client.retry_attempts
               /\ \A k \in 1..n : ~client.responses[k].success
               /\ n >= 1 => client.error = client.responses[n].error
               /\ n = 0 => client.error = "Max retry attempts exceeded"

ClientEnded == client.pc \in {"returned", "raised"}

\* C26: generate_audio ends after at most retry_attempts POST requests.  It returns
\* the first response whose success field is true and sends no request after it;
\* it raises only when all retry_attempts attempts have failed, and then the error
\* of the last attempt (with retry_attempts = 0 there is no attempt: no request is
\* sent and "Max retry attempts exceeded" is raised); and every call returns or
\* raises.
C26_ClientTerminates ==
    /\ []ClientBounded
    /\ (client.pc # "idle") ~> ClientEnded

\* C26 witness: a client with retry_attempts = 3 whose first attempt timed out and
\* whose second was answered 200 has returned after two POST requests.
C26_Witness ==
    /\ client.pc = "returned"
    /\ client.retry_attempts = DefaultRetryAttempts
    /\ client.posts = 2
    /\ client.responses[1].error = "Timeout"
    /\ client.responses[2].success

\* C26 witness of the other end: all three attempts failed, the last by a
\* connection error, which is the error raised.
C26_WitnessRaised ==
    /\ client.pc = "raised"
    /\ client.retry_attempts = DefaultRetryAttempts
    /\ client.posts = DefaultRetryAttempts
    /\ client.error = "ConnectionError"
    /\ client.responses[1].error = "Timeout"

-----------------------------------------------------------------------------
(* Properties of the registry: VOICE_LIBRARY and CHARACTER_VOICES *)

\* C23: a voice that is the bound voice of a registered character cannot be
\* deleted, also when admin_delete_voice runs concurrently with
\* set_character_voice or admin_create_character: whenever a voice leaves
\* VOICE_LIBRARY no character of CHARACTER_VOICES is bound to it.
C23_BoundVoiceNotDeleted ==
    [][\A v \in VOICE_LIBRARY :
            v \notin VOICE_LIBRARY' => UsingCharacters(CHARACTER_VOICES, v) = {}]_vars

\* C30: referential integrity of the registry: after any sequence of
\* admin_upload_voice, admin_create_character, admin_delete_voice,
\* admin_delete_character, set_character_voice and admin_reload_config every
\* character of CHARACTER_VOICES has a voice_id that is a key of VOICE_LIBRARY.
C30_ReferentialIntegrity ==
    \A c \in DOMAIN CHARACTER_VOICES : CHARACTER_VOICES[c].voice_id \in VOICE_LIBRARY

====
